---------------------------- MODULE Spec2Model ----------------------------
(***************************************************************************)
(* Fact-checking pipeline of app.py: a Streamlit script main() that is     *)
(* re-run from the top on every UI event.  One run extracts the text of    *)
(* the uploaded PDF, asks an oracle for the claims in it, and - when the   *)
(* "Verify All Claims" button triggered the run - searches the web and     *)
(* asks the oracle for a verdict per claim, stores the results in          *)
(* st.session_state and re-runs to display them.                           *)
(*                                                                         *)
(* JSON values coming back from the oracles are modelled by their shape:   *)
(* a dictionary key that is absent is the string MISSING, a value that is  *)
(* present but is not a string (a number, null) is the string NONSTR.      *)
(***************************************************************************)
EXTENDS Integers, Sequences, FiniteSets, TLC

VARIABLES
    uploaded,     \* st.file_uploader: the document in the widget, or NoFile
    clicked,      \* st.button: TRUE only in the run the click triggered
    pc,           \* position of the current run of main()
    pdf_text,     \* main's local pdf_text, as its length
    claims,       \* main's local claims
    results,      \* main's local results (the batch being built)
    idx,          \* claims processed by the for loop of the batch
    hasResults,   \* 'verification_results' in st.session_state
    session,      \* st.session_state['verification_results']
    resultsDoc,   \* history: the document whose batch wrote session
    shown,        \* this run rendered the "Verification Results" section
    displayed,    \* the results that section rendered
    halted,       \* how the last finished run ended
    calls,        \* history: oracle calls made by the current run
    lastIn,       \* history: what the oracles answered for claim idx
    resp          \* history: the last answer of the claim-extraction oracle

vars == <<uploaded, clicked, pc, pdf_text, claims, results, idx, hasResults,
          session, resultsDoc, shown, displayed, halted, calls, lastIn, resp>>

--------------------------------------------------------------------------
(* Bounds and program constants *)

MaxClaims == 2
max_results == 5
PromptCap == 3

MISSING == "MISSING"
NONSTR == "NONSTR"
NoFile == "none"

RECURSIVE SeqsUpTo(_, _)
SeqsUpTo(S, n) ==
    IF n = 0 THEN {<<>>}
    ELSE LET shorter == SeqsUpTo(S, n - 1)
         IN  shorter \cup {Append(s, x) : s \in {t \in shorter : Len(t) = n - 1}, x \in S}

--------------------------------------------------------------------------
(* Documents and text extraction *)

\* page_text of every page of a document: 0 is a page without readable text
DocPages(d) ==
    CASE d = "A" -> <<120, 0, 40>>
      [] d = "B" -> <<75>>
      [] d = "S" -> <<0, 0>>
      [] OTHER   -> <<>>

Docs == {"A", "B", "S"}

RECURSIVE extract_text_from_pdf(_)
extract_text_from_pdf(pages) ==
    IF pages = <<>> THEN 0
    ELSE LET page_text == Head(pages)
         IN  (IF page_text > 0 THEN page_text + 1 ELSE 0)
             + extract_text_from_pdf(Tail(pages))

--------------------------------------------------------------------------
(* Claims as the extraction oracle returns them *)

\* lean elements for the session model, all elements for the per-claim models
LeanElems ==
    [isDict : {TRUE}, claim : {"t1", MISSING, NONSTR}, type : {"date"}]
    \cup {[isDict |-> FALSE, claim |-> MISSING, type |-> MISSING]}

ClaimElems ==
    [isDict : {TRUE}, claim : {"t1", MISSING, NONSTR}, type : {"date", MISSING}]
    \cup {[isDict |-> FALSE, claim |-> MISSING, type |-> MISSING]}

ClaimText(claim) == IF claim.claim = MISSING THEN "" ELSE claim.claim
ClaimType(claim) == IF claim.type = MISSING THEN "other" ELSE claim.type

\* claim.get('claim', 'N/A')[:100] of the preview and claim.get('claim', '')[:50]
\* of verify_claim's handlers raise for a non-dict and for a non-string text
Sliceable(claim) == claim.isDict /\ claim.claim # NONSTR

\* what response.choices[0].message.content decodes to
ExtractResponses(elems) ==
    [outcome : {"json"}, shape : {"object"}, hasClaims : {TRUE}, claimsIsList : {TRUE},
     items : SeqsUpTo(elems, MaxClaims)]
    \cup [outcome : {"json"}, shape : {"list"}, hasClaims : {FALSE}, claimsIsList : {FALSE},
          items : SeqsUpTo(elems, MaxClaims)]
    \cup [outcome : {"json"}, shape : {"object"}, hasClaims : BOOLEAN, claimsIsList : {FALSE},
          items : {<<>>}]
    \cup [outcome : {"json"}, shape : {"scalar"}, hasClaims : {FALSE}, claimsIsList : {FALSE},
          items : {<<>>}]
    \cup [outcome : {"badjson", "raise"}, shape : {"none"}, hasClaims : {FALSE},
          claimsIsList : {FALSE}, items : {<<>>}]

NoResp == [outcome |-> "none", shape |-> "none", hasClaims |-> FALSE,
           claimsIsList |-> FALSE, items |-> <<>>]

\* faulty variant: the bare-list shape of lines 103-104 is not accepted
extract_claims_objonly(r) ==
    IF r.outcome # "json" THEN <<>>
    ELSE IF r.shape = "object" /\ r.hasClaims /\ r.claimsIsList THEN r.items ELSE <<>>

extract_claims(r) ==
    IF r.outcome = "raise" THEN <<>>
    ELSE IF r.outcome = "badjson" THEN <<>>
    ELSE LET got == IF r.shape = "object" /\ r.hasClaims
                    THEN [isList |-> r.claimsIsList, items |-> r.items]
                    ELSE IF r.shape = "list"
                         THEN [isList |-> TRUE, items |-> r.items]
                         ELSE [isList |-> TRUE, items |-> <<>>]
         IN  IF got.isList THEN got.items ELSE <<>>

--------------------------------------------------------------------------
(* Web search *)

\* url 0 is an absent or empty url; contentOk is FALSE for a snippet whose
\* content is present but not a string (content[:500] raises)
SnippetsFor(i, n, hole, bad) ==
    [k \in 1..n |-> [url |-> IF k = hole THEN 0 ELSE 10 * i + k, contentOk |-> k # bad]]

SearchFailure == [ok |-> FALSE, results |-> <<>>]

\* what tavily_client.search answers for the i-th claim: it raises, or returns
\* n results, of which one may lack a url and one may have an unreadable content
SearchAnswers(i, shapes) ==
    {SearchFailure}
    \cup {[ok |-> TRUE, results |-> SnippetsFor(i, n, hole, bad)] :
            n \in shapes.ns, hole \in shapes.holes, bad \in shapes.bads}

AllSearch == [ns |-> 0..max_results, holes |-> 0..max_results, bads |-> 0..max_results]
MidSearch == [ns |-> {0, 4}, holes |-> {0}, bads |-> {0, 2}]
LeanSearch == [ns |-> {0}, holes |-> {0}, bads |-> {0}]

search_web_for_claim(claim, claim_type, so) ==
    IF so.ok THEN [results |-> so.results, query |-> claim]
    ELSE [results |-> <<>>, query |-> claim]

--------------------------------------------------------------------------
(* Verification *)

Statuses == {"VERIFIED", "INACCURATE", "FALSE", "ERROR", "UNKNOWN"}
Confidences == {"HIGH", "MEDIUM", "LOW"}

\* what the verification call yields: it raises, its content is not JSON, or
\* it decodes to a JSON value that is an object or not
Verdicts(statuses, confidences) ==
    [outcome : {"json"}, isObject : {TRUE}, status : statuses, confidence : confidences]
    \cup [outcome : {"raise", "badjson"}, isObject : {FALSE}, status : {MISSING},
          confidence : {MISSING}]
    \cup {[outcome |-> "json", isObject |-> FALSE, status |-> MISSING, confidence |-> MISSING]}

AllVerdicts ==
    Verdicts({"VERIFIED", "INACCURATE", "FALSE", "PARTLY_TRUE", NONSTR, MISSING},
             {"HIGH", "MEDIUM", "LOW", "VERY_HIGH", MISSING})
MidVerdicts == Verdicts({"VERIFIED", MISSING}, {"HIGH"})
LeanVerdicts ==
    {v \in Verdicts({"VERIFIED"}, {"HIGH"}) : v.outcome = "raise" \/ v.isObject}

NoInput == [search |-> [ok |-> TRUE, results |-> <<>>],
            verdict |-> [outcome |-> "none", isObject |-> FALSE, status |-> MISSING,
                         confidence |-> MISSING]]

Min(a, b) == IF a < b THEN a ELSE b

\* search_results["results"][:3], the snippets the prompt embeds
Embedded(search_results) ==
    SubSeq(search_results.results, 1, Min(PromptCap, Len(search_results.results)))

BadEvidence(search_results) ==
    \E k \in 1..Len(Embedded(search_results)) : ~Embedded(search_results)[k].contentOk

Urls(snippets) == [k \in 1..Len(snippets) |-> snippets[k].url]
HasUrl(u) == u # 0

\* faulty variant: the sources are taken from every search result
SourcesOfAll(search_results) == SelectSeq(Urls(search_results.results), HasUrl)

Sources(search_results) == SelectSeq(Urls(Embedded(search_results)), HasUrl)

\* faulty variant: only a JSON decoding error counts as a failure
VerifyFailsParseOnly(search_results, v) ==
    BadEvidence(search_results) \/ v.outcome = "badjson"

\* the try body of verify_claim fails before it returns: content[:500] of a
\* snippet raises, the oracle call raises, json.loads raises, or the decoded
\* value has no .get
VerifyFails(search_results, v) ==
    BadEvidence(search_results) \/ v.outcome # "json" \/ ~v.isObject

\* the except handlers slice claim.get('claim', ''), outside any try
verify_claim_raises(claim, search_results, v) ==
    ~claim.isDict \/ (VerifyFails(search_results, v) /\ ~Sliceable(claim))

ErrorResult(claim) ==
    [claim |-> ClaimText(claim), type |-> ClaimType(claim), status |-> "ERROR",
     confidence |-> "LOW", sources |-> <<>>]

\* faulty variant: an empty evidence list is reported as an error
verify_claim_needs_evidence(claim, search_results, v) ==
    IF search_results.results = <<>> \/ VerifyFails(search_results, v)
    THEN ErrorResult(claim)
    ELSE [claim |-> ClaimText(claim), type |-> ClaimType(claim),
          status |-> IF v.status = MISSING THEN "UNKNOWN" ELSE v.status,
          confidence |-> IF v.confidence = MISSING THEN "MEDIUM" ELSE v.confidence,
          sources |-> Sources(search_results)]

\* lines 138-221; the two except handlers return the same result but for the
\* explanation, which like correct_info is not modelled
verify_claim(claim, search_results, v) ==
    IF VerifyFails(search_results, v) THEN ErrorResult(claim)
    ELSE [claim |-> ClaimText(claim), type |-> ClaimType(claim),
          status |-> IF v.status = MISSING THEN "UNKNOWN" ELSE v.status,
          confidence |-> IF v.confidence = MISSING THEN "MEDIUM" ELSE v.confidence,
          sources |-> Sources(search_results)]

--------------------------------------------------------------------------
(* main(): one run of the script, in segments between oracle calls *)

NoCalls == [extract |-> 0, search |-> 0, verify |-> 0]

\* a run of main() begins: its locals do not exist yet, the page is cleared
RunStarts(click) ==
    /\ pc' = "Idle"
    /\ clicked' = click
    /\ pdf_text' = 0
    /\ claims' = <<>>
    /\ results' = <<>>
    /\ idx' = 0
    /\ shown' = FALSE
    /\ displayed' = <<>>
    /\ halted' = "running"
    /\ calls' = NoCalls
    /\ lastIn' = NoInput
    /\ resp' = NoResp

\* the run ends (st.stop(), an uncaught exception, or the end of main)
RunEnds(how) ==
    /\ pc' = "Waiting"
    /\ halted' = how

\* UI events: each one re-runs main() from the top
Upload(d) ==
    /\ pc = "Waiting"
    /\ d # uploaded
    /\ uploaded' = d
    /\ RunStarts(FALSE)
    /\ UNCHANGED <<hasResults, session, resultsDoc>>

RemoveFile ==
    /\ pc = "Waiting"
    /\ uploaded # NoFile
    /\ uploaded' = NoFile
    /\ RunStarts(FALSE)
    /\ UNCHANGED <<hasResults, session, resultsDoc>>

\* the button exists only on a page whose run reached line 297
ClickVerify ==
    /\ pc = "Waiting"
    /\ halted = "done"
    /\ RunStarts(TRUE)
    /\ UNCHANGED <<uploaded, hasResults, session, resultsDoc>>

Rerender ==
    /\ pc = "Waiting"
    /\ RunStarts(FALSE)
    /\ UNCHANGED <<uploaded, hasResults, session, resultsDoc>>

\* line 274: if not pdf_text
NoText(text) == text = 0

\* lines 269-278
StartRun ==
    /\ pc = "Idle"
    /\ IF uploaded = NoFile
       THEN RunEnds("nofile") /\ UNCHANGED pdf_text
       ELSE LET text == extract_text_from_pdf(DocPages(uploaded))
            IN  /\ pdf_text' = text
                /\ IF NoText(text) THEN RunEnds("notext")
                   ELSE pc' = "TextExtracted" /\ UNCHANGED halted
    /\ UNCHANGED <<uploaded, clicked, claims, results, idx, hasResults, session,
                   resultsDoc, shown, displayed, calls, lastIn, resp>>

\* lines 291-294: the preview evaluates claim.get('claim', 'N/A')[:100] per claim
PreviewRaises(cs) == \E i \in 1..Len(cs) : ~Sliceable(cs[i])

\* faulty variant: an empty claim list does not stop the run
NoClaimsNever(cs) == FALSE

\* line 284: if not claims
NoClaims(cs) == cs = <<>>

\* lines 280-294
ExtractClaimsStep(Resps) ==
    /\ pc = "TextExtracted"
    /\ \E r \in Resps :
         /\ claims' = extract_claims(r)
         /\ calls' = [calls EXCEPT !.extract = @ + 1]
         /\ IF NoClaims(claims') THEN RunEnds("noclaims")
            ELSE IF PreviewRaises(claims') THEN RunEnds("crash")
            ELSE pc' = "ClaimsExtracted" /\ UNCHANGED halted
    /\ UNCHANGED <<uploaded, clicked, pdf_text, results, idx, hasResults, session,
                   resultsDoc, shown, displayed, lastIn, resp>>

\* lines 297-302: the run the button triggered starts the batch
BeginBatch ==
    /\ pc = "ClaimsExtracted"
    /\ clicked
    /\ results' = <<>>
    /\ idx' = 0
    /\ pc' = IF Len(claims) = 0 THEN "Complete" ELSE "Verifying"
    /\ UNCHANGED <<uploaded, clicked, pdf_text, claims, hasResults, session, resultsDoc,
                   shown, displayed, halted, calls, lastIn, resp>>

\* faulty variant: a result with status ERROR is dropped from the batch
AppendUnlessError(rs, verification) ==
    IF verification.status = "ERROR" THEN rs ELSE Append(rs, verification)

\* line 317: results.append(verification)
AppendResult(rs, verification) == Append(rs, verification)

\* lines 304-317: one iteration of the for loop
VerifyNext(shapes, VerdictSet) ==
    /\ pc = "Verifying"
    /\ idx < Len(claims)
    /\ LET claim == claims[idx + 1]
       IN  IF ~claim.isDict
           THEN /\ RunEnds("crash")
                /\ UNCHANGED <<results, idx, calls, lastIn>>
           ELSE \E so \in SearchAnswers(idx + 1, shapes), v \in VerdictSet :
                  LET search_results ==
                          search_web_for_claim(ClaimText(claim), ClaimType(claim), so)
                  IN  /\ lastIn' = [search |-> so, verdict |-> v]
                      /\ calls' = [calls EXCEPT
                                     !.search = @ + 1,
                                     !.verify = @ + (IF BadEvidence(search_results)
                                                     THEN 0 ELSE 1)]
                      /\ IF verify_claim_raises(claim, search_results, v)
                         THEN /\ RunEnds("crash")
                              /\ UNCHANGED <<results, idx>>
                         ELSE /\ results' = AppendResult(
                                      results, verify_claim(claim, search_results, v))
                              /\ idx' = idx + 1
                              /\ pc' = IF idx' = Len(claims) THEN "Complete"
                                       ELSE "Verifying"
                              /\ UNCHANGED halted
    /\ UNCHANGED <<uploaded, clicked, pdf_text, claims, hasResults, session, resultsDoc,
                   shown, displayed, resp>>

\* lines 319-326: store the batch in the session state and st.rerun()
StoreResults ==
    /\ pc = "Complete"
    /\ session' = results
    /\ hasResults' = TRUE
    /\ resultsDoc' = uploaded
    /\ RunStarts(FALSE)
    /\ UNCHANGED uploaded

\* lines 335-352: the four metrics of the summary, percentages in tenths
Count(rs, status) == Cardinality({i \in 1..Len(rs) : rs[i].status = status})

\* f"{c/n*100:.1f}%": c/n*100 rounded to one decimal, ties to even
Pct(c, n) ==
    LET q == (1000 * c) \div n
        r == (1000 * c) % n
    IN  IF 2 * r > n \/ (2 * r = n /\ q % 2 = 1) THEN q + 1 ELSE q

Summary(rs) ==
    [total |-> Len(rs),
     counts |-> [s \in {"VERIFIED", "INACCURATE", "FALSE"} |-> Count(rs, s)],
     pcts |-> [s \in {"VERIFIED", "INACCURATE", "FALSE"} |-> Pct(Count(rs, s), Len(rs))]]

\* lines 297, 329-385: the button was not clicked; show what the session holds
DisplayStep ==
    /\ pc = "ClaimsExtracted"
    /\ ~clicked
    /\ IF hasResults
       THEN IF Len(session) = 0
            THEN RunEnds("crash") /\ UNCHANGED <<shown, displayed>>
            ELSE shown' = TRUE /\ displayed' = session /\ RunEnds("done")
       ELSE RunEnds("done") /\ UNCHANGED <<shown, displayed>>
    /\ UNCHANGED <<uploaded, clicked, pdf_text, claims, results, idx, hasResults, session,
                   resultsDoc, calls, lastIn, resp>>

--------------------------------------------------------------------------
(* The session: every UI event, lean oracle answers *)

Init ==
    /\ uploaded = NoFile
    /\ clicked = FALSE
    /\ pc = "Waiting"
    /\ pdf_text = 0
    /\ claims = <<>>
    /\ results = <<>>
    /\ idx = 0
    /\ hasResults = FALSE
    /\ session = <<>>
    /\ resultsDoc = NoFile
    /\ shown = FALSE
    /\ displayed = <<>>
    /\ halted = "nofile"
    /\ calls = NoCalls
    /\ lastIn = NoInput
    /\ resp = NoResp

Next ==
    \/ \E d \in Docs : Upload(d)
    \/ RemoveFile
    \/ ClickVerify
    \/ Rerender
    \/ StartRun
    \/ ExtractClaimsStep(ExtractResponses(LeanElems))
    \/ BeginBatch
    \/ VerifyNext(LeanSearch, LeanVerdicts)
    \/ StoreResults
    \/ DisplayStep

Spec == Init /\ [][Next]_vars

--------------------------------------------------------------------------
(* A session up to the store of its first batch, with the failure modes of *)
(* every oracle                                                            *)

ReadableDocs == {d \in Docs : ~NoText(extract_text_from_pdf(DocPages(d)))}

NextBatch ==
    \/ \E d \in ReadableDocs : ~hasResults /\ Upload(d)
    \/ ~hasResults /\ ClickVerify
    \/ ~hasResults /\ StartRun
    \/ ExtractClaimsStep(ExtractResponses(ClaimElems))
    \/ BeginBatch
    \/ VerifyNext(MidSearch, MidVerdicts)
    \/ StoreResults
    \/ DisplayStep

SpecBatch == Init /\ [][NextBatch]_vars

--------------------------------------------------------------------------
(* One iteration of the batch over every answer the oracles can give *)

InitVerify ==
    /\ uploaded = "A"
    /\ clicked = TRUE
    /\ pc = "Verifying"
    /\ pdf_text = extract_text_from_pdf(DocPages("A"))
    /\ claims \in {<<c>> : c \in {e \in ClaimElems : Sliceable(e)}}
    /\ results = <<>>
    /\ idx = 0
    /\ hasResults = FALSE
    /\ session = <<>>
    /\ resultsDoc = NoFile
    /\ shown = FALSE
    /\ displayed = <<>>
    /\ halted = "running"
    /\ calls = [extract |-> 1, search |-> 0, verify |-> 0]
    /\ lastIn = NoInput
    /\ resp = NoResp

NextVerify == VerifyNext(AllSearch, AllVerdicts)

SpecVerify == InitVerify /\ [][NextVerify]_vars

--------------------------------------------------------------------------
(* extract_claims over every shape of oracle answer *)

InitExtract ==
    /\ uploaded = "A"
    /\ clicked = FALSE
    /\ pc = "TextExtracted"
    /\ pdf_text = extract_text_from_pdf(DocPages("A"))
    /\ claims = <<>>
    /\ results = <<>>
    /\ idx = 0
    /\ hasResults = FALSE
    /\ session = <<>>
    /\ resultsDoc = NoFile
    /\ shown = FALSE
    /\ displayed = <<>>
    /\ halted = "running"
    /\ calls = NoCalls
    /\ lastIn = NoInput
    /\ resp \in ExtractResponses(ClaimElems)

NextExtract == ExtractClaimsStep({resp})

SpecExtract == InitExtract /\ [][NextExtract]_vars

--------------------------------------------------------------------------
(* Properties *)

InBatch == lastIn # NoInput

OracleFailed(v) == v.outcome \in {"raise", "badjson"} \/ (v.outcome = "json" /\ ~v.isObject)

\* C1: when the batch of main finishes, results holds exactly one result per
\* claim, in the order of claims: equal lengths, and results[i].claim is the text
\* of claims[i], whatever searches and verifications failed on the way.
C1_OneResultPerClaimInOrder ==
    pc = "Complete" =>
        /\ Len(results) = Len(claims)
        /\ \A i \in 1..Len(claims) :
             results[i].claim = (IF claims[i].claim = MISSING THEN "" ELSE claims[i].claim)

C1_Witness ==
    /\ pc = "Complete"
    /\ Len(claims) = 2
    /\ claims[1].claim # claims[2].claim
    /\ results[1].status = "ERROR"
    /\ results[2].status = "VERIFIED"
    /\ ~lastIn.search.ok

\* C2 (as claimed): a failed web search for a claim gives that claim's result
\* the status ERROR.
C2_SearchFailureIsError ==
    (InBatch /\ ~lastIn.search.ok /\ pc \in {"Verifying", "Complete"}) =>
        results[idx].status = "ERROR"

\* C2 (amended): a failed web search is isolated to its claim: the batch goes
\* on, the claim gets its one result with no sources, and that result has status
\* ERROR only if the verification failed; otherwise it carries the verdict's
\* status (UNKNOWN when the verdict has none).
C2_SearchFailureIsolated ==
    (InBatch /\ ~lastIn.search.ok) =>
        /\ halted = "running"
        /\ pc = (IF idx < Len(claims) THEN "Verifying" ELSE "Complete")
        /\ idx > 0
        /\ Len(results) = idx
        /\ results[idx].sources = <<>>
        /\ IF OracleFailed(lastIn.verdict)
           THEN results[idx].status = "ERROR"
           ELSE results[idx].status =
                    (IF lastIn.verdict.status = MISSING THEN "UNKNOWN"
                     ELSE lastIn.verdict.status)

C2_Witness ==
    /\ InBatch
    /\ ~lastIn.search.ok
    /\ pc = "Verifying"
    /\ idx = 1
    /\ results[1].status = "VERIFIED"

\* C3: when the verification call raises, or returns content that is not JSON
\* or not a JSON object, the claim's result is status ERROR, confidence LOW, no
\* sources, with the claim's text and kind, and the batch is not aborted.
C3_VerifyFailureIsError ==
    (InBatch /\ OracleFailed(lastIn.verdict)) =>
        /\ halted = "running"
        /\ pc \in {"Verifying", "Complete"}
        /\ idx > 0
        /\ Len(results) = idx
        /\ results[idx] =
             [claim |-> IF claims[idx].claim = MISSING THEN "" ELSE claims[idx].claim,
              type |-> IF claims[idx].type = MISSING THEN "other" ELSE claims[idx].type,
              status |-> "ERROR", confidence |-> "LOW", sources |-> <<>>]

C3_Witness ==
    /\ InBatch
    /\ lastIn.verdict.outcome = "json"
    /\ ~lastIn.verdict.isObject
    /\ Len(lastIn.search.results) = 4
    /\ idx = 2
    /\ results[1].status = "ERROR"
    /\ results[2].status = "ERROR"
    /\ results[2].claim = "t1"

\* C4: a result has at most 3 sources, and each is the url of one of the first
\* 3 results of the search made for that claim, never of results 4-5 and never
\* of another claim's search.
C4_SourcesFromPrompt ==
    (InBatch /\ pc = "Complete") =>
        LET src == results[idx].sources
            found == lastIn.search.results
        IN  /\ Len(src) <= 3
            /\ \A j \in 1..Len(src) :
                 /\ \E k \in 1..Len(found) : k <= 3 /\ found[k].url = src[j]
                 /\ \A k \in 4..Len(found) : found[k].url # src[j]
                 /\ src[j] \div 10 = idx

C4_Witness ==
    /\ InBatch
    /\ pc = "Complete"
    /\ Len(lastIn.search.results) = 5
    /\ Len(results[idx].sources) = 3

\* C5 (as claimed): every result's status is one of VERIFIED, INACCURATE, FALSE,
\* ERROR, UNKNOWN and its confidence one of HIGH, MEDIUM, LOW.
C5_StatusAndConfidenceInEnum ==
    \A i \in 1..Len(results) :
        /\ results[i].status \in Statuses
        /\ results[i].confidence \in Confidences

StageEdges ==
    {<<"Waiting", "Idle">>, <<"Idle", "Waiting">>, <<"Idle", "TextExtracted">>,
     <<"TextExtracted", "Waiting">>, <<"TextExtracted", "ClaimsExtracted">>,
     <<"ClaimsExtracted", "Waiting">>, <<"ClaimsExtracted", "Verifying">>,
     <<"Verifying", "Complete">>, <<"Complete", "Idle">>}

C6_StageInv ==
    /\ pc \in {"TextExtracted", "ClaimsExtracted", "Verifying", "Complete"} => pdf_text > 0
    /\ pc \in {"ClaimsExtracted", "Verifying", "Complete"} => claims # <<>>
    /\ halted = "notext" => pdf_text = 0 /\ calls = NoCalls
    /\ halted = "noclaims" => claims = <<>> /\ calls.search = 0 /\ calls.verify = 0

C6_StageStep ==
    /\ pc' # pc => <<pc, pc'>> \in StageEdges
    /\ calls'.extract > calls.extract => pc = "TextExtracted" /\ pdf_text > 0
    /\ (calls'.search > calls.search \/ calls'.verify > calls.verify) =>
           pc = "Verifying" /\ claims # <<>>
    /\ (session' # session \/ hasResults' # hasResults) =>
           pc = "Complete" /\ claims # <<>> /\ session' = results

\* C6: the stages of a run follow Idle, TextExtracted, ClaimsExtracted,
\* Verifying, Complete in that order; a run whose text is empty makes no
\* claim-extraction call, and a run whose claim list is empty makes no search
\* or verification call and stores no results.
C6_StagesInOrder == [](C6_StageInv) /\ [][C6_StageStep]_vars

C6_Witness ==
    /\ halted = "noclaims"
    /\ calls.extract = 1
    /\ calls.search = 0
    /\ hasResults

\* C7: extract_claims yields the list of an object with a list-valued "claims"
\* field and of a bare list unchanged, and the empty list for every other answer.
C7_NormalizesByShape ==
    pc # "TextExtracted" =>
        claims = (IF /\ resp.outcome = "json"
                     /\ \/ resp.shape = "list"
                        \/ resp.shape = "object" /\ resp.hasClaims /\ resp.claimsIsList
                  THEN resp.items ELSE <<>>)

C7_Witness ==
    /\ pc = "ClaimsExtracted"
    /\ resp.shape = "list"
    /\ Len(claims) = 2
    /\ claims[1] # claims[2]

SumOver(f) == f["VERIFIED"] + f["INACCURATE"] + f["FALSE"]

\* C8 (as claimed): the counts the summary reports add up to the number of
\* results and its percentages to 100%, up to the rounding of each percentage.
C8_SummaryCoversAllResults ==
    shown =>
        LET s == Summary(displayed)
        IN  /\ SumOver(s.counts) = s.total
            /\ SumOver(s.pcts) >= 1000 - 3
            /\ SumOver(s.pcts) <= 1000 + 3

\* C9 (as claimed): once a batch has stored its results, every finished re-run
\* with the same document uploaded shows the stored results.
C9_ResultsSurviveRerun ==
    (pc = "Waiting" /\ hasResults /\ uploaded = resultsDoc) =>
        (shown /\ displayed = session)

\* C10 (as claimed): the results shown while a document is uploaded are the
\* results of that run's claim list: as many, with the same texts in order.
C10_DisplayedMatchesClaims ==
    (shown /\ uploaded # NoFile) =>
        /\ Len(displayed) = Len(claims)
        /\ \A i \in 1..Len(claims) :
             displayed[i].claim = (IF claims[i].claim = MISSING THEN "" ELSE claims[i].claim)

==========================================================================
